---- MODULE Spec2Model ----
(***************************************************************************)
(* fcheck: the xv6 file system consistency checker of src/fcheck.c.        *)
(*                                                                         *)
(* One run of main() on one image.  The image is read-only: it is chosen   *)
(* in Init and never changes.  The run is a sequence of four validator     *)
(* passes; the first violation ends the run through exit_with_error.       *)
(*                                                                         *)
(* A block of the image is kept as DPB directory-entry records (2-byte     *)
(* inode number, name).  The same bytes read as 32-bit block addresses     *)
(* (an indirect block) are given by Word0: names of the model are shorter  *)
(* than three characters, so only the first word of each record can be     *)
(* non-zero, and every loop over the NINDIRECT words of a block skips the  *)
(* zero words.                                                             *)
(***************************************************************************)
EXTENDS Integers, Sequences, FiniteSets, TLC

VARIABLES args, image, pc, status, out, inodemap, stack

vars == <<args, image, pc, status, out, inodemap, stack>>

(***************************************************************************)
(* Bounds of the model (the geometry of the images that are explored).     *)
(***************************************************************************)
NINODES == 5
NBLOCKS == 6
NDIRECT == 2
DPB == 2
MaxRef == 4

(***************************************************************************)
(* Program constants.                                                      *)
(***************************************************************************)
INODE_DIR == 1
INODE_FILE == 2
INODE_DEV == 3
IPB == 8
BPB == 4096
ROOTINO == 1
\* No exit status yet: exit() has not been called.
NoStatus == 0 - 1

OK == "ok"
FAULT == "fault"

MsgBadInode == "bad inode."
MsgBadDirect == "bad direct address in inode."
MsgBadIndirect == "bad indirect address in inode."
MsgRoot == "root directory does not exist."
MsgFormat == "directory not properly formatted."
MsgFormatDot == "directory not properly formatted"
MsgMarkedFree == "address used by inode but marked free in bitmap."
MsgBitmapInUse == "bitmap marks block in use but it is not in use."
MsgDirectTwice == "direct address used more than once."
MsgIndirectTwice == "indirect address used more than once."
MsgNotFound == "inode marked use but not found in a directory."
MsgReferredFree == "inode referred to in directory but marked free."
MsgBadRefCount == "bad reference count for file."
MsgDirTwice == "directory appears more than once in file system."

\* What exit_with_error writes to stderr for a message.
ErrorLine(m) == "ERROR: " \o m

(***************************************************************************)
(* Geometry.                                                               *)
(***************************************************************************)
\* startingblock of main(): the first block of the data region.
StartingBlock(sb) == ((sb.ninodes \div IPB) + 1) + ((sb.size \div BPB) + 1) + 2

Names == {"", ".", "..", "a"}

\* The first two bytes of the name field, as they sit in bits 16..31 of the
\* record's first little-endian word.
NameCode(n) ==
  CASE n = "" -> 0
    [] n = "." -> 46
    [] n = ".." -> 46 + 256 * 46
    [] OTHER -> 97

\* The first 32-bit word of a directory-entry record.
Word0(e) == e.inum + 65536 * NameCode(e.name)

EmptyEntry == [inum |-> 0, name |-> ""]

\* The non-zero words of a block read as an array of block addresses, in order.
RECURSIVE WordsFrom(_, _)
WordsFrom(blk, k) ==
  IF k >= DPB THEN <<>>
  ELSE (IF Word0(blk[k]) = 0 THEN <<>> ELSE <<Word0(blk[k])>>) \o WordsFrom(blk, k + 1)

IndirectWords(img, b) == WordsFrom(img.blocks[b], 0)

\* The records of a block read as directory entries, in order.
RECURSIVE EntriesFrom(_, _)
EntriesFrom(blk, k) ==
  IF k >= DPB THEN <<>> ELSE <<blk[k]>> \o EntriesFrom(blk, k + 1)

BlockEntries(img, b) == EntriesFrom(img.blocks[b], 0)

\* is_bit_set on an address the bitmap of the model covers.
IsBitSet(img, a) == img.bitmap[a]

(***************************************************************************)
(* Pass 1: validate_inodes, checks 1 to 5 for every in-use inode.          *)
(***************************************************************************)
\* Check 1.
validate_inode_type(ino) ==
  IF ino.type # INODE_FILE /\ ino.type # INODE_DIR /\ ino.type # INODE_DEV
  THEN MsgBadInode
  ELSE OK

\* Check 2.  The entries of the indirect block are read only when the indirect
\* address is non-zero and in range.
validate_block_addresses(img, ino) ==
  LET ind == ino.addrs[NDIRECT] IN
  IF \E k \in 0..(NDIRECT - 1) : ino.addrs[k] # 0 /\ ino.addrs[k] >= img.sb.size
  THEN MsgBadDirect
  ELSE IF ind = 0 THEN OK
  ELSE IF ind >= img.sb.size THEN MsgBadIndirect
  ELSE IF \E j \in 1..Len(IndirectWords(img, ind)) :
            IndirectWords(img, ind)[j] >= img.sb.size
  THEN MsgBadIndirect
  ELSE OK

\* The directory entries of the direct blocks of an inode, in scan order.
RECURSIVE DirectEntriesFrom(_, _, _)
DirectEntriesFrom(img, ino, k) ==
  IF k >= NDIRECT THEN <<>>
  ELSE (IF ino.addrs[k] = 0 THEN <<>> ELSE BlockEntries(img, ino.addrs[k]))
       \o DirectEntriesFrom(img, ino, k + 1)

DirectEntries(img, ino) == DirectEntriesFrom(img, ino, 0)

\* The scan of validate_directory_structure from entry k on.
RECURSIVE ScanDots(_, _, _, _, _)
ScanDots(es, k, inum, found_dot, found_dotdot) ==
  IF found_dot /\ found_dotdot THEN OK
  ELSE IF k > Len(es) THEN MsgFormat
  ELSE IF es[k].name = "." THEN
         IF es[k].inum # inum THEN MsgFormatDot
         ELSE ScanDots(es, k + 1, inum, TRUE, found_dotdot)
  ELSE IF es[k].name = ".." THEN
         IF (inum = 1 /\ es[k].inum # inum) \/ (inum # 1 /\ es[k].inum = inum)
         THEN MsgRoot
         ELSE ScanDots(es, k + 1, inum, found_dot, TRUE)
  ELSE ScanDots(es, k + 1, inum, found_dot, found_dotdot)

\* Checks 3 and 4.
validate_directory_structure(img, ino, inum) ==
  ScanDots(DirectEntries(img, ino), 1, inum, FALSE, FALSE)

\* The bitmap tests of the words of the block the indirect slot names, from
\* word j on.  A word at or beyond the image size names a bit outside the
\* bitmap of the image: the byte read is not part of the bitmap (or not part of
\* the mapping), so the bit may read set or clear, or the read may fault.
RECURSIVE BitmapWords(_, _, _)
BitmapWords(img, ws, j) ==
  IF j > Len(ws) THEN {OK}
  ELSE IF ws[j] < img.sb.size THEN
         IF IsBitSet(img, ws[j]) THEN BitmapWords(img, ws, j + 1) ELSE {MsgMarkedFree}
  ELSE {MsgMarkedFree, FAULT} \cup BitmapWords(img, ws, j + 1)

\* Check 5: the set of possible outcomes.  The block of the indirect slot is
\* read whatever the slot holds, block 0 included.
validate_bitmap_addr(img, ino) ==
  IF \E k \in 0..NDIRECT : ino.addrs[k] # 0 /\ ~IsBitSet(img, ino.addrs[k])
  THEN {MsgMarkedFree}
  ELSE BitmapWords(img, IndirectWords(img, ino.addrs[NDIRECT]), 1)

\* The body of the loop of validate_inodes for inode i: the set of outcomes.
InodeChecks(img, i) ==
  LET ino == img.inodes[i] IN
  IF ino.type = 0 THEN {OK}
  ELSE IF validate_inode_type(ino) # OK THEN {validate_inode_type(ino)}
  ELSE IF validate_block_addresses(img, ino) # OK
  THEN {validate_block_addresses(img, ino)}
  ELSE IF i = 1 /\ ino.type # INODE_DIR THEN {MsgRoot}
  ELSE IF ino.type = INODE_DIR /\ validate_directory_structure(img, ino, i) # OK
  THEN {validate_directory_structure(img, ino, i)}
  ELSE validate_bitmap_addr(img, ino)

\* validate_inodes from inode i on: the set of outcomes.
RECURSIVE ValidateFrom(_, _)
ValidateFrom(img, i) ==
  IF i >= img.sb.ninodes THEN {OK}
  ELSE (InodeChecks(img, i) \ {OK})
       \cup (IF OK \in InodeChecks(img, i) THEN ValidateFrom(img, i + 1) ELSE {})

\* validate_inodes with check 1 run over every inode before the other checks.
validate_inodes_TypesFirst(img) ==
  IF \E i \in 0..(img.sb.ninodes - 1) :
       img.inodes[i].type # 0 /\ validate_inode_type(img.inodes[i]) # OK
  THEN {MsgBadInode}
  ELSE ValidateFrom(img, 0)

validate_inodes(img) == ValidateFrom(img, 0)

(***************************************************************************)
(* Pass 2: verify_bitmap_usage, check 6.                                   *)
(***************************************************************************)
InUse(img) == {i \in 0..(img.sb.ninodes - 1) : img.inodes[i].type # 0}

\* The index (address - starting_block) lies inside an array of sb.nblocks
\* elements.  The subtraction is unsigned: an address below the data region
\* wraps to an index far beyond the array.
InArray(img, a) ==
  a >= StartingBlock(img.sb) /\ a - StartingBlock(img.sb) < img.sb.nblocks

\* The addresses get_active_data_blocks marks for one inode.
ActiveAddrs(img, ino) ==
  ({ino.addrs[k] : k \in 0..NDIRECT} \ {0})
  \cup (IF ino.addrs[NDIRECT] = 0 THEN {}
        ELSE {IndirectWords(img, ino.addrs[NDIRECT])[j] :
                j \in 1..Len(IndirectWords(img, ino.addrs[NDIRECT]))})

\* get_active_data_blocks without the entries of the indirect blocks.
get_active_data_blocks_SlotsOnly(img) ==
  {a \in UNION {{img.inodes[i].addrs[k] : k \in 0..NDIRECT} \ {0} : i \in InUse(img)} :
     InArray(img, a)}

\* blocks_in_use after the loop over the inodes, as the set of marked addresses.
get_active_data_blocks(img) ==
  {a \in UNION {ActiveAddrs(img, img.inodes[i]) : i \in InUse(img)} : InArray(img, a)}

\* Some write of get_active_data_blocks falls outside blocks_in_use.
UsageOutOfBounds(img) ==
  \E i \in InUse(img) : \E a \in ActiveAddrs(img, img.inodes[i]) : ~InArray(img, a)

\* The verifying loop of verify_bitmap_usage from block index b on.
RECURSIVE BitmapScan(_, _)
BitmapScan(img, b) ==
  IF b >= img.sb.nblocks THEN OK
  ELSE IF (b + StartingBlock(img.sb)) \notin get_active_data_blocks(img)
          /\ IsBitSet(img, b + StartingBlock(img.sb))
  THEN MsgBitmapInUse
  ELSE BitmapScan(img, b + 1)

\* The set of outcomes of verify_bitmap_usage.  An out-of-bounds write is
\* undefined behaviour: the run faults, or the write lands outside the array and
\* the pass goes on with the array as the in-bounds writes left it.
verify_bitmap_usage(img) ==
  {BitmapScan(img, 0)} \cup (IF UsageOutOfBounds(img) THEN {FAULT} ELSE {})

(***************************************************************************)
(* Pass 3: validate_block_address_uniqueness, checks 7 and 8.              *)
(***************************************************************************)
\* tally_direct_block_usage looking at the first direct slot only.
tally_direct_FirstSlot(img, a) ==
  Cardinality({i \in InUse(img) : img.inodes[i].addrs[0] = a})

\* tally_direct_block_usage sharing one counter with the indirect entries.
tally_direct_Merged(img, a) ==
  Cardinality({p \in InUse(img) \X (0..(NDIRECT - 1)) :
                 img.inodes[p[1]].addrs[p[2]] = a})
  + Cardinality({p \in InUse(img) \X (1..DPB) :
                 /\ img.inodes[p[1]].addrs[NDIRECT] # 0
                 /\ p[2] <= Len(IndirectWords(img, img.inodes[p[1]].addrs[NDIRECT]))
                 /\ IndirectWords(img, img.inodes[p[1]].addrs[NDIRECT])[p[2]] = a})

\* direct_usage_counts[a - start_block] after the loop over the inodes.
tally_direct_block_usage(img, a) ==
  Cardinality({p \in InUse(img) \X (0..(NDIRECT - 1)) :
                 img.inodes[p[1]].addrs[p[2]] = a})

\* indirect_usage_counts[a - start_block] after the loop over the inodes.
count_indirect_block_usage(img, a) ==
  Cardinality({p \in InUse(img) \X (1..DPB) :
                 /\ img.inodes[p[1]].addrs[NDIRECT] # 0
                 /\ p[2] <= Len(IndirectWords(img, img.inodes[p[1]].addrs[NDIRECT]))
                 /\ IndirectWords(img, img.inodes[p[1]].addrs[NDIRECT])[p[2]] = a})

\* Some increment of the two tallies falls outside its array.
TallyOutOfBounds(img) ==
  \E i \in InUse(img) :
    \/ \E k \in 0..(NDIRECT - 1) :
         img.inodes[i].addrs[k] # 0 /\ ~InArray(img, img.inodes[i].addrs[k])
    \/ /\ img.inodes[i].addrs[NDIRECT] # 0
       /\ \E j \in 1..Len(IndirectWords(img, img.inodes[i].addrs[NDIRECT])) :
            ~InArray(img, IndirectWords(img, img.inodes[i].addrs[NDIRECT])[j])

\* The verifying loop of validate_block_address_uniqueness from block index b on.
RECURSIVE UniqueScan(_, _)
UniqueScan(img, b) ==
  IF b >= img.sb.nblocks THEN OK
  ELSE IF tally_direct_block_usage(img, b + StartingBlock(img.sb)) > 1
  THEN MsgDirectTwice
  ELSE IF count_indirect_block_usage(img, b + StartingBlock(img.sb)) > 1
  THEN MsgIndirectTwice
  ELSE UniqueScan(img, b + 1)

\* The set of outcomes of validate_block_address_uniqueness.
validate_block_address_uniqueness(img) ==
  {UniqueScan(img, 0)} \cup (IF TallyOutOfBounds(img) THEN {FAULT} ELSE {})

(***************************************************************************)
(* Pass 4: validate_directory_rules, checks 9 to 12.                       *)
(***************************************************************************)
\* The type read through a stacked inode pointer.  A pointer past the inode
\* table reads an unused slot of the last inode block, which is not a directory.
TypeAt(img, n) == IF n < img.sb.ninodes THEN img.inodes[n].type ELSE 0

\* The entries of the blocks named by the words ws of an indirect block.
RECURSIVE IndirectEntriesFrom(_, _, _)
IndirectEntriesFrom(img, ws, j) ==
  IF j > Len(ws) THEN <<>>
  ELSE BlockEntries(img, ws[j]) \o IndirectEntriesFrom(img, ws, j + 1)

\* Every directory entry the traversal reads for a directory inode, in order:
\* the direct blocks, then the blocks of the indirect block.
AllEntries(img, ino) ==
  DirectEntries(img, ino)
  \o (IF ino.addrs[NDIRECT] = 0 THEN <<>>
      ELSE IndirectEntriesFrom(img, IndirectWords(img, ino.addrs[NDIRECT]), 1))

\* The entry is counted and followed.
Counted(e) == e.inum # 0 /\ e.name # "." /\ e.name # ".."

\* The inode numbers of the counted entries of es, in order.
RECURSIVE TargetsFrom(_, _)
TargetsFrom(es, k) ==
  IF k > Len(es) THEN <<>>
  ELSE (IF Counted(es[k]) THEN <<es[k].inum>> ELSE <<>>) \o TargetsFrom(es, k + 1)

Targets(img, n) == TargetsFrom(AllEntries(img, img.inodes[n]), 1)

\* How often n occurs in the sequence ts.
Occurrences(ts, n) == Cardinality({k \in 1..Len(ts) : ts[k] = n})

\* The verdict loop of validate_directory_rules from inode i on.
RECURSIVE RulesScan(_, _, _)
RulesScan(img, refs, i) ==
  IF i >= img.sb.ninodes THEN OK
  ELSE IF img.inodes[i].type # 0 /\ refs[i] = 0 THEN MsgNotFound
  ELSE IF refs[i] > 0 /\ img.inodes[i].type = 0 THEN MsgReferredFree
  ELSE IF img.inodes[i].type = INODE_FILE /\ img.inodes[i].nlink # refs[i]
  THEN MsgBadRefCount
  ELSE IF img.inodes[i].type = INODE_DIR /\ refs[i] > 1 THEN MsgDirTwice
  ELSE RulesScan(img, refs, i + 1)

\* The verdict loop started at inode 0.
validate_directory_rules_FromZero(img, refs) == RulesScan(img, refs, 0)

validate_directory_rules(img, refs) == RulesScan(img, refs, 2)

(***************************************************************************)
(* The images explored: a consistent image, as mkfs builds it, with up to  *)
(* two fields overwritten.                                                 *)
(***************************************************************************)
BaseSB ==
  [size |-> NBLOCKS + (NINODES \div IPB) + 4, nblocks |-> NBLOCKS, ninodes |-> NINODES]

DS == StartingBlock(BaseSB)

\* The blocks whose contents the model holds: block 0 and the data region.
BlockIds == {0} \cup (DS..(BaseSB.size - 1))

Inode(type, nlink, d0, d1, ind) ==
  [type |-> type, nlink |-> nlink,
   addrs |-> [k \in 0..NDIRECT |->
                IF k = NDIRECT THEN ind
                ELSE IF k = 0 THEN d0 ELSE IF k = 1 THEN d1 ELSE 0]]

Entry(inum, name) == [inum |-> inum, name |-> name]

Block(e0, e1) ==
  [k \in 0..(DPB - 1) |-> IF k = 0 THEN e0 ELSE IF k = 1 THEN e1 ELSE EmptyEntry]

\* Root (inode 1) holds directory 2 and file 3; directory 2 holds device 4;
\* file 3 has an indirect block with one data block.
BaseImage ==
  [sb |-> BaseSB,
   inodes |-> [i \in 0..(NINODES - 1) |->
      CASE i = 1 -> Inode(INODE_DIR, 1, DS, DS + 1, 0)
        [] i = 2 -> Inode(INODE_DIR, 1, DS + 2, DS + 3, 0)
        [] i = 3 -> Inode(INODE_FILE, 1, 0, 0, DS + 4)
        [] i = 4 -> Inode(INODE_DEV, 1, 0, 0, 0)
        [] OTHER -> Inode(0, 0, 0, 0, 0)],
   bitmap |-> [a \in 0..(BaseSB.size - 1) |-> a < DS + 6],
   blocks |-> [b \in BlockIds |->
      CASE b = DS -> Block(Entry(1, "."), Entry(1, ".."))
        [] b = DS + 1 -> Block(Entry(2, "a"), Entry(3, "a"))
        [] b = DS + 2 -> Block(Entry(2, "."), Entry(1, ".."))
        [] b = DS + 3 -> Block(Entry(4, "a"), EmptyEntry)
        [] b = DS + 4 -> Block(Entry(DS + 5, ""), EmptyEntry)
        [] OTHER -> Block(EmptyEntry, EmptyEntry)]]

\* The values a corrupted address slot takes: unused, a block below the data
\* region, every data block, and the first address out of range.
AddrValues == {0, DS - 1} \cup (DS..BaseSB.size)

Mutations ==
  {<<"none", 0, 0, 0>>}
  \cup {<<"type", i, 0, v>> : i \in 0..(NINODES - 1), v \in 0..4}
  \cup {<<"nlink", i, 0, v>> : i \in 0..(NINODES - 1), v \in 0..2}
  \cup {<<"addr", i, k, v>> : i \in 0..(NINODES - 1), k \in 0..NDIRECT, v \in AddrValues}
  \cup {<<"inum", b, k, v>> : b \in BlockIds, k \in 0..(DPB - 1), v \in 0..BaseSB.size}
  \cup {<<"name", b, k, v>> : b \in BlockIds, k \in 0..(DPB - 1), v \in 0..3}
  \cup {<<"bit", a, 0, 0>> : a \in 0..(BaseSB.size - 1)}

NameOf(v) == CASE v = 0 -> "" [] v = 1 -> "." [] v = 2 -> ".." [] OTHER -> "a"

Mutate(img, m) ==
  CASE m[1] = "type" -> [img EXCEPT !.inodes[m[2]].type = m[4]]
    [] m[1] = "nlink" -> [img EXCEPT !.inodes[m[2]].nlink = m[4]]
    [] m[1] = "addr" -> [img EXCEPT !.inodes[m[2]].addrs[m[3]] = m[4]]
    [] m[1] = "inum" -> [img EXCEPT !.blocks[m[2]][m[3]].inum = m[4]]
    [] m[1] = "name" -> [img EXCEPT !.blocks[m[2]][m[3]].name = NameOf(m[4])]
    [] m[1] = "bit" -> [img EXCEPT !.bitmap[m[2]] = ~img.bitmap[m[2]]]
    [] OTHER -> img

\* The run reads no block of the image that the model does not hold: blocks
\* 1 .. DS-1 (superblock, inode table, bitmap) are never read as an indirect
\* block or as a directory block.  The words of block 0 are read by the
\* bitmap check only, which reads no block through them.
LowAddr(a) == a >= 1 /\ a < DS

Modelled(img) ==
  \A i \in 0..(NINODES - 1) :
    LET ino == img.inodes[i] IN
    \/ ino.type \notin {INODE_DIR, INODE_FILE, INODE_DEV}
    \/ /\ ~LowAddr(ino.addrs[NDIRECT])
       /\ ino.type = INODE_DIR =>
            /\ \A k \in 0..(NDIRECT - 1) : ~LowAddr(ino.addrs[k])
            /\ ino.addrs[NDIRECT] \in BlockIds \ {0} =>
                 \A j \in 1..Len(IndirectWords(img, ino.addrs[NDIRECT])) :
                   ~LowAddr(IndirectWords(img, ino.addrs[NDIRECT])[j])

Images == {img \in {Mutate(Mutate(BaseImage, m1), m2) : m1, m2 \in Mutations} : Modelled(img)}

(***************************************************************************)
(* The run of main().                                                      *)
(***************************************************************************)
Invocations == {"image", "usage", "notfound", "nostat", "nomap"}

Init ==
  /\ args \in Invocations
  /\ image \in (IF args = "image" THEN Images ELSE {BaseImage})
  /\ pc = "main"
  /\ status = NoStatus
  /\ out = <<>>
  /\ inodemap = [n \in 0..(NINODES - 1) |-> 0]
  /\ stack = <<>>

\* exit_with_error(m).
exit_with_error(m) ==
  /\ out' = Append(out, ErrorLine(m))
  /\ status' = 1
  /\ pc' = "exit"

\* The end of a pass with outcome r: on to the next pass, a fault, or the exit
\* of the first violation.
Finish(r, next) ==
  IF r = OK THEN pc' = next /\ UNCHANGED <<status, out>>
  ELSE IF r = FAULT THEN pc' = "fault" /\ UNCHANGED <<status, out>>
  ELSE exit_with_error(r)

\* main() up to the first pass.
Main ==
  /\ pc = "main"
  /\ CASE args = "usage" ->
            /\ out' = Append(out, "Usage: fcheck <file_system_image>")
            /\ status' = 1 /\ pc' = "exit"
       [] args = "notfound" ->
            /\ out' = Append(out, "image not found")
            /\ status' = 1 /\ pc' = "exit"
       [] args = "nostat" ->
            /\ status' = 1 /\ pc' = "exit" /\ UNCHANGED out
       [] args = "nomap" ->
            /\ out' = Append(out, "mmap failed")
            /\ status' = 1 /\ pc' = "exit"
       [] OTHER ->
            /\ pc' = "validate_inodes" /\ UNCHANGED <<status, out>>
  /\ UNCHANGED <<args, image, inodemap, stack>>

RunValidateInodes ==
  /\ pc = "validate_inodes"
  /\ \E r \in validate_inodes(image) : Finish(r, "verify_bitmap_usage")
  /\ UNCHANGED <<args, image, inodemap, stack>>

RunVerifyBitmapUsage ==
  /\ pc = "verify_bitmap_usage"
  /\ \E r \in verify_bitmap_usage(image) : Finish(r, "validate_block_address_uniqueness")
  /\ UNCHANGED <<args, image, inodemap, stack>>

RunValidateUniqueness ==
  /\ pc = "validate_block_address_uniqueness"
  /\ \E r \in validate_block_address_uniqueness(image) :
       Finish(r, "validate_directory_rules")
  /\ UNCHANGED <<args, image, inodemap, stack>>

\* validate_directory_rules up to the call of scan_directory_entries, and the
\* push of the root inode.
EnterDirectoryRules ==
  /\ pc = "validate_directory_rules"
  /\ inodemap' = [n \in 0..(NINODES - 1) |-> IF n <= 1 THEN 1 ELSE 0]
  /\ stack' = <<ROOTINO>>
  /\ pc' = "scan_directory_entries"
  /\ UNCHANGED <<args, image, status, out>>

\* inodemap after the increments of the counted entries ts.  An increment for an
\* inode number at or beyond ninodes falls outside the array.
Counted_inodemap(refs, ts) ==
  [n \in 0..(NINODES - 1) |-> refs[n] + Occurrences(ts, n)]

\* One iteration of the while loop of scan_directory_entries.
ScanDirectoryEntries ==
  /\ pc = "scan_directory_entries"
  /\ stack # <<>>
  /\ LET current == stack[Len(stack)]
         rest == SubSeq(stack, 1, Len(stack) - 1)
     IN IF TypeAt(image, current) # INODE_DIR
        THEN /\ stack' = rest
             /\ UNCHANGED <<inodemap, pc>>
        ELSE /\ \A n \in 0..(NINODES - 1) :
                  Counted_inodemap(inodemap, Targets(image, current))[n] <= MaxRef
             /\ \/ /\ inodemap' = Counted_inodemap(inodemap, Targets(image, current))
                   /\ stack' = rest \o Targets(image, current)
                   /\ UNCHANGED pc
                \/ /\ \E k \in 1..Len(Targets(image, current)) :
                        Targets(image, current)[k] >= image.sb.ninodes
                   /\ pc' = "fault"
                   /\ UNCHANGED <<inodemap, stack>>
  /\ UNCHANGED <<args, image, status, out>>

\* The return of scan_directory_entries and the verdict loop.
RunDirectoryRules ==
  /\ pc = "scan_directory_entries"
  /\ stack = <<>>
  /\ IF validate_directory_rules(image, inodemap) = OK
     THEN status' = 0 /\ pc' = "exit" /\ UNCHANGED out
     ELSE exit_with_error(validate_directory_rules(image, inodemap))
  /\ UNCHANGED <<args, image, inodemap, stack>>

Next ==
  \/ Main
  \/ RunValidateInodes
  \/ RunVerifyBitmapUsage
  \/ RunValidateUniqueness
  \/ EnterDirectoryRules
  \/ ScanDirectoryEntries
  \/ RunDirectoryRules

Spec == Init /\ [][Next]_vars

(***************************************************************************)
(* The consistency rules, stated on the image alone.                       *)
(***************************************************************************)
Ran == args = "image"

Exited == Ran /\ pc = "exit"

\* validate_directory_rules has seeded the counters: the run is in pass 4.
InPass4 == Ran /\ inodemap[0] = 1

\* The run has not stopped short of an exit: it has exited or can take a step.
Running == pc = "exit" \/ ENABLED Next

Inodes(img) == 0..(img.sb.ninodes - 1)

DataBlocks(img) == {a \in 0..(img.sb.size - 1) : InArray(img, a)}

LegalType(ino) == ino.type \in {INODE_DIR, INODE_FILE, INODE_DEV}

\* The non-zero words of the indirect block of an inode whose indirect slot
\* names a block the model holds.
WordsOf(img, ino) ==
  IF ino.addrs[NDIRECT] # 0 /\ ino.addrs[NDIRECT] \in DOMAIN img.blocks
  THEN IndirectWords(img, ino.addrs[NDIRECT])
  ELSE <<>>

WordSet(img, ino) == {WordsOf(img, ino)[j] : j \in 1..Len(WordsOf(img, ino))}

\* Every address an inode uses: direct, indirect, and inside the indirect block.
UsedBy(img, ino) == ({ino.addrs[k] : k \in 0..NDIRECT} \ {0}) \cup WordSet(img, ino)

\* The places that use block a: direct slots, indirect slots, indirect words.
DirectUses(img, a) ==
  {p \in InUse(img) \X (0..(NDIRECT - 1)) : img.inodes[p[1]].addrs[p[2]] = a}

SlotUses(img, a) == {i \in InUse(img) : img.inodes[i].addrs[NDIRECT] = a}

WordUses(img, a) ==
  {p \in InUse(img) \X (1..DPB) :
     /\ p[2] <= Len(WordsOf(img, img.inodes[p[1]]))
     /\ WordsOf(img, img.inodes[p[1]])[p[2]] = a}

Directories(img) == {i \in InUse(img) : img.inodes[i].type = INODE_DIR}

\* The blocks whose records are the directory entries of directory d.
DirBlocks(img, d) ==
  ({img.inodes[d].addrs[k] : k \in 0..(NDIRECT - 1)} \cup WordSet(img, img.inodes[d]))
  \cap (DOMAIN img.blocks \ {0})


\* The records (block, slot) that are the directory entries of directory d.
DirRecords(img, d) == DirBlocks(img, d) \X (0..(DPB - 1))

\* The record names an inode: it is neither unused nor "." nor "..".
Naming(e) == e.inum # 0 /\ e.name \notin {".", ".."}

\* The inodes named by the entries of directory d.
Children(img, d) ==
  {img.blocks[r[1]][r[2]].inum :
     r \in {q \in DirRecords(img, d) : Naming(img.blocks[q[1]][q[2]])}}

\* The inodes reachable from the set S through the entries of directories.
RECURSIVE ReachableFrom(_, _)
ReachableFrom(img, S) ==
  LET T == S \cup UNION {Children(img, d) : d \in S \cap Directories(img)}
  IN IF T = S THEN S ELSE ReachableFrom(img, T)

\* The directories the traversal can reach from the root inode.
ReachableDirs(img) == ReachableFrom(img, {ROOTINO}) \cap Directories(img)

\* Some reachable directory reaches itself again.
Cyclic(img) ==
  \E d \in ReachableDirs(img) : d \in ReachableFrom(img, Children(img, d))

\* The entries that name inode i: the records of the blocks of the reachable
\* directories, each record once.
NamingRecords(img, i) ==
  {r \in UNION {DirRecords(img, d) : d \in ReachableDirs(img)} :
     Naming(img.blocks[r[1]][r[2]]) /\ img.blocks[r[1]][r[2]].inum = i}

\* Rules 1 and 2: legal types; every address used is a block of the data region.
RuleTypes(img) == \A i \in InUse(img) : LegalType(img.inodes[i])

RuleAddresses(img) ==
  \A i \in InUse(img) :
    /\ \A k \in 0..NDIRECT :
         img.inodes[i].addrs[k] # 0 => img.inodes[i].addrs[k] \in DataBlocks(img)
    /\ WordSet(img, img.inodes[i]) \subseteq DataBlocks(img)

\* Rules 3 and 4: the root is a directory whose first block starts with "." and
\* ".." naming inode 1; every directory has "." naming itself and "..", and the
\* ".." of another directory than the root names another inode.
RuleRoot(img) ==
  /\ img.inodes[ROOTINO].type = INODE_DIR
  /\ img.inodes[ROOTINO].addrs[0] \in DOMAIN img.blocks \ {0}
  /\ img.blocks[img.inodes[ROOTINO].addrs[0]][0] = Entry(ROOTINO, ".")
  /\ img.blocks[img.inodes[ROOTINO].addrs[0]][1] = Entry(ROOTINO, "..")

DirectRecords(img, d) ==
  ({img.inodes[d].addrs[k] : k \in 0..(NDIRECT - 1)} \cap (DOMAIN img.blocks \ {0}))
  \X (0..(DPB - 1))

RuleDots(img) ==
  \A d \in Directories(img) :
    LET es == {img.blocks[r[1]][r[2]] : r \in DirectRecords(img, d)} IN
    /\ \E e \in es : e.name = "."
    /\ \E e \in es : e.name = ".."
    /\ \A e \in es : e.name = "." => e.inum = d
    /\ \A e \in es : e.name = ".." => (IF d = ROOTINO THEN e.inum = d ELSE e.inum # d)

\* Rules 5 and 6: the bitmap bit of a data block is set exactly when it is used.
RuleBitmap(img) ==
  \A a \in DataBlocks(img) :
    IsBitSet(img, a) <=> (\E i \in InUse(img) : a \in UsedBy(img, img.inodes[i]))

\* Rules 7 and 8, and no block used in two roles.
RuleOnce(img) ==
  \A a \in DataBlocks(img) :
    Cardinality(DirectUses(img, a)) + Cardinality(SlotUses(img, a))
      + Cardinality(WordUses(img, a)) <= 1

\* Rules 9 to 12.
RuleLinks(img) ==
  /\ \A d \in Directories(img) : Children(img, d) \subseteq InUse(img)
  /\ \A i \in InUse(img) \ {0, ROOTINO} : NamingRecords(img, i) # {}
  /\ \A i \in InUse(img) \ {0, ROOTINO} :
       img.inodes[i].type = INODE_FILE =>
         img.inodes[i].nlink = Cardinality(NamingRecords(img, i))
  /\ \A d \in Directories(img) \ {0, ROOTINO} : Cardinality(NamingRecords(img, d)) = 1

\* The directories form a tree rooted at inode 1.
RuleTree(img) ==
  /\ Directories(img) \subseteq ReachableDirs(img)
  /\ NamingRecords(img, ROOTINO) = {}
  /\ 0 \notin Directories(img)

\* The reserved block 0 is empty, as the image builder leaves it.
BootBlockEmpty(img) == \A k \in 0..(DPB - 1) : img.blocks[0][k] = EmptyEntry

\* An image with no corruption.
Consistent(img) ==
  /\ RuleTypes(img)
  /\ RuleAddresses(img)
  /\ RuleRoot(img)
  /\ RuleDots(img)
  /\ RuleBitmap(img)
  /\ RuleOnce(img)
  /\ RuleLinks(img)
  /\ RuleTree(img)
  /\ BootBlockEmpty(img)

SharedDirect(img, a) ==
  /\ IsBitSet(img, a)
  /\ \E p \in DirectUses(img, a) : \E q \in DirectUses(img, a) : p[1] # q[1]

\* Every rule checked before check 7 holds, and no indirect entry occurs twice.
OtherwiseClean(img) ==
  /\ RuleTypes(img)
  /\ RuleAddresses(img)
  /\ RuleRoot(img)
  /\ RuleDots(img)
  /\ RuleBitmap(img)
  /\ BootBlockEmpty(img)
  /\ \A a \in DataBlocks(img) : Cardinality(WordUses(img, a)) <= 1

SharedDirectReported ==
  (Ran /\ OtherwiseClean(image) /\ \E a \in DataBlocks(image) : SharedDirect(image, a)) =>
    /\ pc # "fault"
    /\ Running
    /\ ~InPass4
    /\ (pc = "exit" => status = 1 /\ out = <<ErrorLine(MsgDirectTwice)>>)
    /\ (pc # "exit" => status = NoStatus /\ out = <<>>)

\* Two directories share a direct block, and the run has reported it.
SharedDirectWitness ==
  /\ Exited /\ OtherwiseClean(image)
  /\ \E a \in DataBlocks(image) :
       /\ SharedDirect(image, a)
       /\ \A p \in DirectUses(image, a) : image.inodes[p[1]].type = INODE_DIR
  /\ out = <<ErrorLine(MsgDirectTwice)>>

(***************************************************************************)
(* C7.  The verdict after the traversal: inodes 2 .. ninodes-1 in ascending *)
(* order, the first inode that matches one of the four conditions, tested  *)
(* in their order, decides the message; no match is exit status 0; inodes  *)
(* 0 and 1 are never flagged.                                              *)
(***************************************************************************)
NotFound(i) == image.inodes[i].type # 0 /\ inodemap[i] = 0
ReferredFree(i) == inodemap[i] > 0 /\ image.inodes[i].type = 0
BadRefCount(i) == image.inodes[i].type = INODE_FILE /\ image.inodes[i].nlink # inodemap[i]
DirTwice(i) == image.inodes[i].type = INODE_DIR /\ inodemap[i] > 1

Flagged == {i \in 2..(image.sb.ninodes - 1) :
              NotFound(i) \/ ReferredFree(i) \/ BadRefCount(i) \/ DirTwice(i)}

VerdictFor(i) ==
  IF NotFound(i) THEN MsgNotFound
  ELSE IF ReferredFree(i) THEN MsgReferredFree
  ELSE IF BadRefCount(i) THEN MsgBadRefCount
  ELSE MsgDirTwice

FirstFlagged == CHOOSE i \in Flagged : \A j \in Flagged : i <= j

VerdictAfterTraversal ==
  /\ (InPass4 /\ pc = "scan_directory_entries" /\ stack = <<>>) => ENABLED Next
  /\ (Exited /\ InPass4) =>
       IF Flagged = {} THEN status = 0 /\ out = <<>>
       ELSE status = 1 /\ out = <<ErrorLine(VerdictFor(FirstFlagged))>>

\* Two inodes match different conditions, and the lower one has decided; an
\* in-use inode 0 whose link count differs from its counter was not flagged.
VerdictWitness ==
  /\ Exited /\ InPass4 /\ status = 1
  /\ \E i \in Flagged : \E j \in Flagged : i < j /\ VerdictFor(i) # VerdictFor(j)

VerdictSkipsReservedWitness ==
  /\ Exited /\ InPass4 /\ status = 0
  /\ image.inodes[0].type = INODE_FILE /\ image.inodes[0].nlink # inodemap[0]

(***************************************************************************)
(* C9.  Checks 7 and 8 count separately: check 7 the values of the direct  *)
(* slots, check 8 the entries inside indirect blocks, over all in-use      *)
(* inodes.  A data block once in a direct slot and once inside an indirect *)
(* block triggers neither message.                                         *)
(***************************************************************************)
OnceEach(img, a) ==
  Cardinality(DirectUses(img, a)) = 1 /\ Cardinality(WordUses(img, a)) = 1

DirectTwice(img) == \E a \in DataBlocks(img) : Cardinality(DirectUses(img, a)) > 1

IndirectTwice(img) == \E a \in DataBlocks(img) : Cardinality(WordUses(img, a)) > 1

SeparateCounters ==
  /\ (Exited /\ out = <<ErrorLine(MsgDirectTwice)>>) => DirectTwice(image)
  /\ (Exited /\ out = <<ErrorLine(MsgIndirectTwice)>>) => IndirectTwice(image)
  /\ InPass4 => ~DirectTwice(image) /\ ~IndirectTwice(image)

\* A block used once directly and once inside an indirect block has gone
\* through pass 3 unreported.
SeparateCountersWitness ==
  /\ InPass4
  /\ \E a \in DataBlocks(image) : OnceEach(image, a)

(***************************************************************************)
(* C3.  A run on an opened image that exits ends with status 0 and no      *)
(* diagnostic, or with status 1 and exactly one line "ERROR: <message>"    *)
(* whose message is, character for character, one of the listed messages,  *)
(* each ending with a period; nothing is written before the exit.          *)
(***************************************************************************)
ListedMessages ==
  {"bad inode.", "bad direct address in inode.", "bad indirect address in inode.",
   "root directory does not exist.", "directory not properly formatted.",
   "address used by inode but marked free in bitmap.",
   "bitmap marks block in use but it is not in use.",
   "direct address used more than once.", "indirect address used more than once.",
   "inode marked use but not found in a directory.",
   "inode referred to in directory but marked free.",
   "bad reference count for file.",
   "directory appears more than once in file system."}

OneDiagnosticLine ==
  /\ (Ran /\ pc # "exit") => out = <<>> /\ status = NoStatus
  /\ Exited =>
       \/ status = 0 /\ out = <<>>
       \/ /\ status = 1
          /\ Len(out) = 1
          /\ \E m \in ListedMessages : out[1] = "ERROR: " \o m

(***************************************************************************)
(* C4.  Root rule: when checks 1 and 2 pass for inodes 0 and 1 and inode 1 *)
(* is not a directory (free included), or its first direct address is zero, *)
(* or the block it names does not start with (".", 1) and ("..", 1), the   *)
(* run ends with status 1 and "root directory does not exist.".            *)
(***************************************************************************)
Checks12Pass(img, i) ==
  \/ img.inodes[i].type = 0
  \/ /\ validate_inode_type(img.inodes[i]) = OK
     /\ validate_block_addresses(img, img.inodes[i]) = OK

RootRule ==
  (Exited /\ Checks12Pass(image, 0) /\ Checks12Pass(image, 1) /\ ~RuleRoot(image)) =>
    status = 1 /\ out = <<ErrorLine(MsgRoot)>>

(***************************************************************************)
(* C6.  Reverse bitmap check: when checks 1 to 5 pass for every in-use     *)
(* inode and some data-region block has its bit set while no in-use inode  *)
(* uses it, the run ends with status 1 and "bitmap marks block in use but  *)
(* it is not in use."; a block outside the data region never triggers it.  *)
(***************************************************************************)
Orphan(img, a) ==
  /\ a \in DataBlocks(img)
  /\ IsBitSet(img, a)
  /\ \A i \in InUse(img) : a \notin UsedBy(img, img.inodes[i])

ReverseBitmapCheck ==
  /\ (Ran /\ validate_inodes(image) = {OK} /\ \E a \in DataBlocks(image) : Orphan(image, a)) =>
       /\ Running
       /\ pc = "exit" => status = 1 /\ out = <<ErrorLine(MsgBitmapInUse)>>
  /\ (Exited /\ out = <<ErrorLine(MsgBitmapInUse)>>) =>
       \E a \in DataBlocks(image) : Orphan(image, a)

(***************************************************************************)
(* C8.  On an image that passes checks 1 to 8 the traversal empties the    *)
(* work list and the run reaches an exit when the directories reachable    *)
(* from the root contain no cycle; with a cycle the work list never        *)
(* empties and the run never reaches an exit.                              *)
(***************************************************************************)
TraversalTermination ==
  /\ (InPass4 /\ ~Cyclic(image)) => Running
  /\ (InPass4 /\ Cyclic(image)) =>
       pc # "exit" /\ ~(pc = "scan_directory_entries" /\ stack = <<>>)

(***************************************************************************)
(* C10.  When the traversal has terminated, the counter of every inode     *)
(* i >= 2 is the number of directory entries that name it in the blocks of *)
(* the directories reachable from the root, each entry counted once.       *)
(***************************************************************************)
TraversalDone ==
  InPass4 /\ (pc = "exit" \/ (pc = "scan_directory_entries" /\ stack = <<>>))

CounterIsEntryCount ==
  TraversalDone =>
    \A i \in 2..(image.sb.ninodes - 1) :
      inodemap[i] = Cardinality(NamingRecords(image, i))

(***************************************************************************)
(* C1.  Ordering.  The messages in the fixed order of the claim, by        *)
(* position 1 to 13; both spellings of the format message stand at 5.      *)
(***************************************************************************)
Position(m) ==
  CASE m = MsgBadInode -> 1
    [] m = MsgBadDirect -> 2
    [] m = MsgBadIndirect -> 3
    [] m = MsgRoot -> 4
    [] m \in {MsgFormat, MsgFormatDot} -> 5
    [] m = MsgMarkedFree -> 6
    [] m = MsgBitmapInUse -> 7
    [] m = MsgDirectTwice -> 8
    [] m = MsgIndirectTwice -> 9
    [] m = MsgNotFound -> 10
    [] m = MsgReferredFree -> 11
    [] m = MsgBadRefCount -> 12
    [] m = MsgDirTwice -> 13
    [] OTHER -> 0

Messages ==
  {MsgBadInode, MsgBadDirect, MsgBadIndirect, MsgRoot, MsgFormat, MsgFormatDot,
   MsgMarkedFree, MsgBitmapInUse, MsgDirectTwice, MsgIndirectTwice, MsgNotFound,
   MsgReferredFree, MsgBadRefCount, MsgDirTwice}

\* The run ended with the message at position l of the fixed order.
Emitted(l) ==
  /\ status = 1
  /\ Len(out) = 1
  /\ \E m \in Messages : Position(m) = l /\ out[1] = ErrorLine(m)

\* The passes of the run: positions 1 to 6, 7, 8 and 9, 10 to 13.
PassOf(k) == IF k <= 6 THEN 1 ELSE IF k = 7 THEN 2 ELSE IF k <= 9 THEN 3 ELSE 4

\* The position of the violation inode i carries on its own: what the checks
\* 1 to 5 report for this inode whatever the other inodes hold; 0 when they
\* report nothing, or when the report depends on a read outside the bitmap.
CarriedByInode(img, i) ==
  IF Cardinality(InodeChecks(img, i)) = 1
  THEN Position(CHOOSE m \in InodeChecks(img, i) : TRUE)
  ELSE 0

Pass1Clean(img) == validate_inodes(img) = {OK}

\* The positions block a violates on its own in the third pass.
CarriedByBlock(img, a) ==
  (IF tally_direct_block_usage(img, a) > 1 THEN {8} ELSE {})
  \cup (IF count_indirect_block_usage(img, a) > 1 THEN {9} ELSE {})

\* The image of the run violates, detectably on its own, the check at position
\* k; the checks 10 to 13 are judged on the counters of the finished traversal.
Violated(k) ==
  CASE k <= 6 -> \E i \in Inodes(image) : CarriedByInode(image, i) = k
    [] k = 7 -> Pass1Clean(image) /\ \E a \in DataBlocks(image) : Orphan(image, a)
    [] k \in {8, 9} ->
         Pass1Clean(image) /\ \E a \in DataBlocks(image) : k \in CarriedByBlock(image, a)
    [] k = 10 -> TraversalDone /\ \E i \in 2..(image.sb.ninodes - 1) : NotFound(i)
    [] k = 11 -> TraversalDone /\ \E i \in 2..(image.sb.ninodes - 1) : ReferredFree(i)
    [] k = 12 -> TraversalDone /\ \E i \in 2..(image.sb.ninodes - 1) : BadRefCount(i)
    [] OTHER -> TraversalDone /\ \E i \in 2..(image.sb.ninodes - 1) : DirTwice(i)

IndexesInBounds ==
  (Ran /\ Pass1Clean(image)) =>
    /\ pc = "verify_bitmap_usage" => ~UsageOutOfBounds(image)
    /\ pc = "validate_block_address_uniqueness" => ~TallyOutOfBounds(image)
    /\ (pc = "scan_directory_entries" /\ stack # <<>>
          /\ TypeAt(image, stack[Len(stack)]) = INODE_DIR) =>
         \A k \in 1..Len(Targets(image, stack[Len(stack)])) :
           Targets(image, stack[Len(stack)])[k] < image.sb.ninodes
    /\ pc # "fault"

(***************************************************************************)
(* C12.  The message "address used by inode but marked free in bitmap." is *)
(* emitted only when some in-use inode holds a non-zero direct address, a  *)
(* non-zero indirect address, or a non-zero word in the block its non-zero *)
(* indirect address names, whose bitmap bit is clear; an inode with a zero *)
(* indirect slot contributes no words, whatever block 0 holds.             *)
(***************************************************************************)
RealUseMarkedFree(img) ==
  \E i \in InUse(img) : \E a \in UsedBy(img, img.inodes[i]) :
    a \in DOMAIN img.bitmap /\ ~IsBitSet(img, a)

MarkedFreeOnlyOnRealUse ==
  (Exited /\ out = <<ErrorLine(MsgMarkedFree)>>) => RealUseMarkedFree(image)

====
